---- MODULE Spec2Model ----
(***************************************************************************)
(* RAM SpeedTest (src/ram_speedtest.py): the allocation sizing policy,     *)
(* the benchmark engine run_benchmark, and the App controller that starts  *)
(* the worker thread, cancels it and polls its message queue.              *)
(*                                                                         *)
(* Time is read only through time.perf_counter(); the model's clock counts *)
(* ticks of 0.2 s (TicksPerSec ticks per second), relative to the          *)
(* start_perf reading on_go takes when it accepts a start request.         *)
(* The engine's buffer is a sequence of bytes; the 1 MiB chunk of the      *)
(* chunked fallback is scaled down to ChunkLen bytes and buffers to at     *)
(* most MaxBufLen bytes.  The sizing policy is modelled in real bytes.     *)
(***************************************************************************)
EXTENDS Integers, Sequences, FiniteSets, TLC

\* ---------------------------------------------------------------- constants

MiB == 1048576
GiB == 1073741824

\* bounds of the model
MaxBufLen == 3
ChunkLen == 2
MaxLoops == 2
MaxPrimeTicks == 1
MaxOverrun == 1
MaxMemUnits == 9

\* ticks of the clock per second: one tick is the 0.2 s reporting interval
TicksPerSec == 5
\* "Report ~5 times/sec max": (now - last_report) >= 0.2, in ticks
ReportTicks == 1

PRIME_BYTE == 170
WRITE_BYTE == 90
ADLER_MOD == 65521

ERR_NONE == ""
ERR_ALLOC == "alloc: MemoryError"
ERR_WRITE == "write error"
ERR_READ == "read error"

Max(a, b) == IF a >= b THEN a ELSE b
Min(a, b) == IF a <= b THEN a ELSE b

\* ------------------------------------------------------------ sizing policy

\* mutant: the reserve is added to the total instead of subtracted
choose_100_percent_allocation_AddReserve(total, avail) ==
    IF total <= 0
        THEN 1 * GiB
        ELSE LET reserve == 128 * MiB
                 target == Max(256 * MiB, total + reserve)
                 hard_fallback == IF avail > 0
                                      THEN Max(256 * MiB, avail - 64 * MiB)
                                      ELSE target
             IN  Max(256 * MiB,
                     Min(target, IF hard_fallback > 0 THEN hard_fallback ELSE target))

\* mutant: the available memory is not looked at
choose_100_percent_allocation_NoFallback(total, avail) ==
    IF total <= 0
        THEN 1 * GiB
        ELSE LET reserve == 128 * MiB
                 target == Max(256 * MiB, total - reserve)
             IN  Max(256 * MiB, target)

\* mutant: the fallback margin is the 128 MiB reserve instead of 64 MiB
choose_100_percent_allocation_WideMargin(total, avail) ==
    IF total <= 0
        THEN 1 * GiB
        ELSE LET reserve == 128 * MiB
                 target == Max(256 * MiB, total - reserve)
                 hard_fallback == IF avail > 0
                                      THEN Max(256 * MiB, avail - reserve)
                                      ELSE target
             IN  Max(256 * MiB,
                     Min(target, IF hard_fallback > 0 THEN hard_fallback ELSE target))

\* choose_100_percent_allocation, as a function of the memory reading
choose_100_percent_allocation(total, avail) ==
    IF total <= 0
        THEN 1 * GiB
        ELSE LET reserve == 128 * MiB
                 target == Max(256 * MiB, total - reserve)
                 hard_fallback == IF avail > 0
                                      THEN Max(256 * MiB, avail - 64 * MiB)
                                      ELSE target
             IN  Max(256 * MiB,
                     Min(target, IF hard_fallback > 0 THEN hard_fallback ELSE target))


\* ------------------------------------------------------------------- state

VARIABLES
    MEMSET,        \* module global MEMSET: the libc memset was found (TRUE) or is None
    stop_event,    \* App._stop_event (threading.Event)
    pc,            \* App._worker_thread: "none", "dead", or the worker's position
    ui_q,          \* App._ui_q (queue.Queue), oldest message first
    btn_go,        \* state of the GO button
    btn_stop,      \* state of the STOP button
    lbl_status,    \* text of the status label
    clock,         \* time.perf_counter(), in ticks since start_perf
    args,          \* run_benchmark's arguments size_bytes, duration_s, and whether
                   \* a progress_cb is given
    res,           \* run_benchmark's BenchmarkResult
    buf,           \* the bytearray: live while the worker holds it, and its bytes
    ptr,           \* ptr is not None
    i,             \* index of the chunked fill loops
    loc,           \* run_benchmark's other locals
    sent,          \* history: the types of the messages this run's worker has put
    emitted,       \* history: elapsed and loops of the snapshots the running
                   \* run_benchmark call has passed to progress_cb
    go_ignored,    \* history: on_go returned at its is_alive() check since the last start
    saw_stop,      \* history: the loop of the current run ended on reading the flag as set
    iter_start,    \* history: the clock reading of the loop test that began the
                   \* iteration in progress
    vm_total,      \* get_virtual_memory()["total"]
    vm_avail,      \* get_virtual_memory()["available"]
    planned,       \* choose_100_percent_allocation has returned
    target_bytes,  \* its result
    figures        \* the throughput figures last computed, and from what

app_vars == <<stop_event, ui_q, btn_go, btn_stop, lbl_status>>
run_vars == <<pc, args, res, buf, ptr, i, loc, sent, emitted>>
plan_vars == <<vm_total, vm_avail, planned, target_bytes>>
vars == <<MEMSET, stop_event, pc, ui_q, btn_go, btn_stop, lbl_status, clock,
          args, res, buf, ptr, i, loc, sent, emitted, go_ignored, saw_stop,
          iter_start, vm_total, vm_avail, planned, target_bytes, figures>>

\* a checksum value b * 65536 + a, kept as its two 16-bit halves
Checksum0 == [a |-> 0, b |-> 0]

\* BenchmarkResult.__init__
NewResult ==
    [ok |-> FALSE, error |-> ERR_NONE, allocated_bytes |-> 0, duration_s |-> 0,
     write_bytes |-> 0, read_bytes |-> 0, write_time |-> 0, read_time |-> 0,
     checksum |-> Checksum0, loops |-> 0]

\* the locals of run_benchmark before they are bound
NoLocals ==
    [duration_s |-> 0, t0_global |-> 0, t_end |-> 0,
     write_bytes |-> 0, read_bytes |-> 0, write_time |-> 0, read_time |-> 0,
     checksum |-> Checksum0, loops |-> 0,
     last_report |-> 0, last_wb |-> 0, last_rb |-> 0, last_wt |-> 0, last_rt |-> 0,
     t0 |-> 0, t2 |-> 0]

NoBuf == [live |-> FALSE, data |-> <<>>]
NoArgs == [size_bytes |-> 0, duration_s |-> 0, progress_cb |-> FALSE]

\* no figure computed yet
NoFigures == [kind |-> "none", rates |-> <<>>]

\* ----------------------------------------------------------- pure helpers

\* mutant: the requested duration is used as it is
ClampDuration_NoFloor(d) == d

\* duration_s = max(1.0, float(duration_s))
ClampDuration(d) == Max(1 * TicksPerSec, d)

\* bytearray(n): n zero bytes
ZeroBytes(n) == [k \in 1..n |-> 0]

\* MEMSET(ptr, byte, len(buf))
MemsetAll(data, byte) == [k \in 1..Len(data) |-> byte]

\* mv[i:i + len(chunk)] = chunk[:min(len(chunk), len(buf) - i)]
FillChunk(data, at, byte) ==
    [k \in 1..Len(data) |->
        IF k > at /\ k <= at + Min(ChunkLen, Len(data) - at) THEN byte ELSE data[k]]

\* if MEMSET and ptr is not None
UseMemset(memset, p) == memset /\ p

RECURSIVE adler32_from(_, _, _)
adler32_from(data, k, c) ==
    IF k > Len(data)
        THEN c
        ELSE LET a == (c.a + data[k]) % ADLER_MOD
                 b == (c.b + a) % ADLER_MOD
             IN  adler32_from(data, k + 1, [a |-> a, b |-> b])

\* zlib.adler32(mv, checksum)
adler32(data, c) == adler32_from(data, 1, c)

\* mutant: the division is made whatever the time is
Rate_NoGuard(bytes, time) == [num |-> bytes, den |-> time]

\* (bytes / time / GiB) if time > 0 else 0.0, as the fraction bytes/time
\* (bytes per tick; the constant factor TicksPerSec / GiB is left out)
Rate(bytes, time) ==
    IF time > 0 THEN [num |-> bytes, den |-> time] ELSE [num |-> 0, den |-> 1]

\* BenchmarkResult.write_gbps
write_gbps(r) == Rate(r.write_bytes, r.write_time)

\* BenchmarkResult.read_gbps
read_gbps(r) == Rate(r.read_bytes, r.read_time)

\* BenchmarkResult.total_gbps
total_gbps(r) ==
    LET t == r.write_time + r.read_time
        b == r.write_bytes + r.read_bytes
    IN  Rate(b, t)

\* mutant: an iteration still starts when the clock reads exactly t_end
LoopCond_Inclusive(stop, now, t_end) == (~stop) /\ now <= t_end

\* mutant: the loop condition does not read the cancellation flag
LoopCond_NoStop(stop, now, t_end) == now < t_end

\* while not stop_event.is_set() and time.perf_counter() < t_end
LoopCond(stop, now, t_end) == (~stop) /\ now < t_end

\* mutant: a report is due at the end of every iteration
ReportDue_Always(cb, now, last_report) == cb /\ now >= last_report

\* if progress_cb and (now - last_report) >= 0.2
ReportDue(cb, now, last_report) == cb /\ (now - last_report) >= ReportTicks

\* a later reading of time.perf_counter(): not before the reading c, and in
\* the model not after cap
Readings(c, cap) == c..Max(c, cap)

\* mutant: a phase is credited with one chunk instead of the whole buffer
AddBytes_OneChunk(count, data) == count + Min(ChunkLen, Len(data))

\* write_bytes += len(buf) ; read_bytes += len(buf)
AddBytes(count, data) == count + Len(data)

\* mutant: ok is set when there is an error
ResultOk_Negated(error) == error # ERR_NONE

\* res.ok = not bool(res.error)
ResultOk(error) == error = ERR_NONE

\* mutant: a worker that has put its terminal message counts as finished
ThreadAlive_UntilPut(p) == p \notin {"none", "dead", "exit"}

\* self._worker_thread and self._worker_thread.is_alive()
ThreadAlive(p) == p \notin {"none", "dead"}


\* one full pass over the buffer has written every byte with `byte`
AllBytes(data, byte) == \A k \in 1..Len(data) : data[k] = byte

\* mutant: elapsed is measured from the previous report, not from t0_global
Snapshot_SinceLastReport(l, now) ==
    LET d_wb == l.write_bytes - l.last_wb
        d_rb == l.read_bytes - l.last_rb
        d_wt == l.write_time - l.last_wt
        d_rt == l.read_time - l.last_rt
    IN  [elapsed |-> Max(0, now - l.last_report),
         remain |-> Max(0, l.t_end - now),
         loops |-> l.loops,
         inst_write |-> Rate(d_wb, d_wt),
         inst_read |-> Rate(d_rb, d_rt),
         inst_total |-> Rate(d_wb + d_rb, d_wt + d_rt),
         avg_write |-> Rate(l.write_bytes, l.write_time),
         avg_read |-> Rate(l.read_bytes, l.read_time),
         checksum |-> l.checksum]

\* the progress dict of one emission
Snapshot(l, now) ==
    LET d_wb == l.write_bytes - l.last_wb
        d_rb == l.read_bytes - l.last_rb
        d_wt == l.write_time - l.last_wt
        d_rt == l.read_time - l.last_rt
    IN  [elapsed |-> Max(0, now - l.t0_global),
         remain |-> Max(0, l.t_end - now),
         loops |-> l.loops,
         inst_write |-> Rate(d_wb, d_wt),
         inst_read |-> Rate(d_rb, d_rt),
         inst_total |-> Rate(d_wb + d_rb, d_wt + d_rt),
         avg_write |-> Rate(l.write_bytes, l.write_time),
         avg_read |-> Rate(l.read_bytes, l.read_time),
         checksum |-> l.checksum]

\* progress_cb(d): the message on_go's closure puts
ProgressMsg(d, dur) == [type |-> "progress", data |-> d, t0 |-> 0, dur |-> dur]
DoneMsg(r, dur) == [type |-> "done", result |-> r, dur |-> dur]
ErrorMsg(e) == [type |-> "error", error |-> e]

\* ------------------------------------------------- the worker: run_benchmark

\* res = BenchmarkResult(); duration_s = max(1.0, ...); res.duration_s = duration_s
RunStart ==
    /\ pc = "start"
    /\ res' = [NewResult EXCEPT !.duration_s = ClampDuration(args.duration_s)]
    /\ loc' = [NoLocals EXCEPT !.duration_s = ClampDuration(args.duration_s)]
    /\ pc' = "alloc"
    /\ UNCHANGED <<MEMSET, app_vars, clock, args, buf, ptr, i, sent, emitted, go_ignored, saw_stop, iter_start, plan_vars, figures>>

\* buf = bytearray(size_bytes); res.allocated_bytes = len(buf)
AllocOk ==
    /\ pc = "alloc"
    /\ buf' = [live |-> TRUE, data |-> ZeroBytes(args.size_bytes)]
    /\ res' = [res EXCEPT !.allocated_bytes = args.size_bytes]
    /\ pc' = "view"
    /\ UNCHANGED <<MEMSET, app_vars, clock, args, ptr, i, loc, sent, emitted, go_ignored, saw_stop, iter_start, plan_vars, figures>>

\* mutant: the allocation handler records the error and does not return, so
\* the code after it fails on the unbound buffer
AllocFail_NoReturn ==
    /\ pc = "alloc"
    /\ res' = [res EXCEPT !.error = ERR_ALLOC]
    /\ pc' = "raise"
    /\ UNCHANGED <<MEMSET, app_vars, clock, args, buf, ptr, i, loc, sent, emitted, go_ignored, saw_stop, iter_start, plan_vars, figures>>

\* except MemoryError / except Exception: res.error = ...; return res
AllocFail ==
    /\ pc = "alloc"
    /\ res' = [res EXCEPT !.error = ERR_ALLOC]
    /\ loc' = NoLocals
    /\ pc' = "put"
    /\ UNCHANGED <<MEMSET, app_vars, clock, args, buf, ptr, i, sent, emitted, go_ignored, saw_stop, iter_start, plan_vars, figures>>

\* mv = memoryview(buf); ptr = addressof(from_buffer(buf)), or
\* except Exception: ptr = None
View ==
    /\ pc = "view"
    /\ ptr' \in BOOLEAN
    /\ i' = 0
    /\ pc' = "prime"
    /\ UNCHANGED <<MEMSET, app_vars, clock, args, res, buf, loc, sent, emitted, go_ignored, saw_stop, iter_start, plan_vars, figures>>

\* an exception no handler of run_benchmark catches (memoryview(buf) raising
\* MemoryError): it leaves run_benchmark and reaches worker's except clause
ViewRaise ==
    /\ pc = "view"
    /\ pc' = "raise"
    /\ UNCHANGED <<MEMSET, app_vars, clock, args, res, buf, ptr, i, loc, sent, emitted, go_ignored, saw_stop, iter_start, plan_vars, figures>>

\* Touch/commit pages: MEMSET(ptr, 0xAA, len(buf))
PrimeMemset ==
    /\ pc = "prime"
    /\ UseMemset(MEMSET, ptr)
    /\ buf' = [buf EXCEPT !.data = MemsetAll(buf.data, PRIME_BYTE)]
    /\ pc' = "t0g"
    /\ UNCHANGED <<MEMSET, app_vars, clock, args, res, ptr, i, loc, sent, emitted, go_ignored, saw_stop, iter_start, plan_vars, figures>>

\* the chunked priming loop: one chunk, or break when stop_event is set,
\* or the end of the range
PrimeChunk ==
    /\ pc = "prime"
    /\ ~UseMemset(MEMSET, ptr)
    /\ IF i < Len(buf.data) /\ ~stop_event
          THEN /\ buf' = [buf EXCEPT !.data = FillChunk(buf.data, i, PRIME_BYTE)]
               /\ i' = i + ChunkLen
               /\ pc' = "prime"
          ELSE /\ pc' = "t0g"
               /\ UNCHANGED <<buf, i>>
    /\ UNCHANGED <<MEMSET, app_vars, clock, args, res, ptr, loc, sent, emitted, go_ignored, saw_stop, iter_start, plan_vars, figures>>

\* except Exception: pass  (MEMSET, building the chunk or copying a chunk
\* raised)
PrimeFail ==
    /\ pc = "prime"
    /\ pc' = "t0g"
    /\ UNCHANGED <<MEMSET, app_vars, clock, args, res, buf, ptr, i, loc, sent, emitted, go_ignored, saw_stop, iter_start, plan_vars, figures>>

\* mutant: the budget is counted from the start of the call, priming included
LoopInit_BudgetFromStart ==
    /\ pc = "t0g"
    /\ loc' = [NoLocals EXCEPT !.duration_s = loc.duration_s,
                               !.t0_global = 0,
                               !.t_end = loc.duration_s,
                               !.last_report = 0]
    /\ pc' = "loop"
    /\ UNCHANGED <<MEMSET, app_vars, clock, args, res, buf, ptr, i, sent, emitted, go_ignored, saw_stop, iter_start, plan_vars, figures>>

\* t0_global = perf_counter(); t_end = t0_global + duration_s; the counters = 0;
\* last_report = t0_global
LoopInit ==
    /\ pc = "t0g"
    /\ loc' = [NoLocals EXCEPT !.duration_s = loc.duration_s,
                               !.t0_global = clock,
                               !.t_end = clock + loc.duration_s,
                               !.last_report = clock]
    /\ pc' = "loop"
    /\ UNCHANGED <<MEMSET, app_vars, clock, args, res, buf, ptr, i, sent, emitted, go_ignored, saw_stop, iter_start, plan_vars, figures>>

\* the while condition holds on its reading of the clock (at most MaxLoops
\* iterations in the model): WRITE: t0 = perf_counter(), a second reading
LoopEnter ==
    /\ pc = "loop"
    /\ LoopCond(stop_event, clock, loc.t_end)
    /\ loc.loops < MaxLoops
    /\ \E t0 \in Readings(clock, loc.t_end + MaxOverrun) :
          /\ loc' = [loc EXCEPT !.t0 = t0]
          /\ clock' = t0
    /\ i' = 0
    /\ iter_start' = clock
    /\ pc' = "write"
    /\ UNCHANGED <<MEMSET, app_vars, args, res, buf, ptr, sent, emitted, go_ignored, saw_stop, plan_vars, figures>>

\* MEMSET(ptr, 0x5A, len(buf))
WriteMemset ==
    /\ pc = "write"
    /\ UseMemset(MEMSET, ptr)
    /\ buf' = [buf EXCEPT !.data = MemsetAll(buf.data, WRITE_BYTE)]
    /\ pc' = "w1"
    /\ UNCHANGED <<MEMSET, app_vars, clock, args, res, ptr, i, loc, sent, emitted, go_ignored, saw_stop, iter_start, plan_vars, figures>>

\* the chunked write loop: one chunk, or break when stop_event is set,
\* or the end of the range
WriteChunk ==
    /\ pc = "write"
    /\ ~UseMemset(MEMSET, ptr)
    /\ IF i < Len(buf.data) /\ ~stop_event
          THEN /\ buf' = [buf EXCEPT !.data = FillChunk(buf.data, i, WRITE_BYTE)]
               /\ i' = i + ChunkLen
               /\ pc' = "write"
          ELSE /\ pc' = "w1"
               /\ UNCHANGED <<buf, i>>
    /\ UNCHANGED <<MEMSET, app_vars, clock, args, res, ptr, loc, sent, emitted, go_ignored, saw_stop, iter_start, plan_vars, figures>>

\* except Exception as e: res.error = ...; return res  (MEMSET, building
\* the chunk or copying a chunk raised)
WriteFail ==
    /\ pc = "write"
    /\ res' = [res EXCEPT !.error = ERR_WRITE]
    /\ buf' = NoBuf
    /\ loc' = NoLocals
    /\ ptr' = FALSE
    /\ emitted' = <<>>
    /\ iter_start' = 0
    /\ pc' = "put"
    /\ UNCHANGED <<MEMSET, app_vars, clock, args, i, sent, go_ignored, saw_stop, plan_vars, figures>>

\* t1 = perf_counter(); write_time += t1 - t0; write_bytes += len(buf);
\* READ: t2 = perf_counter(), a second reading
WriteEnd ==
    /\ pc = "w1"
    /\ \E t2 \in Readings(clock, loc.t_end + MaxOverrun) :
          /\ loc' = [loc EXCEPT !.write_time = @ + (clock - loc.t0),
                                !.write_bytes = AddBytes(@, buf.data),
                                !.t2 = t2]
          /\ clock' = t2
    /\ pc' = "read"
    /\ UNCHANGED <<MEMSET, app_vars, args, res, buf, ptr, i, sent, emitted, go_ignored, saw_stop, iter_start, plan_vars, figures>>

\* checksum = zlib.adler32(mv, checksum)
ReadOk ==
    /\ pc = "read"
    /\ loc' = [loc EXCEPT !.checksum = adler32(buf.data, @)]
    /\ pc' = "r1"
    /\ UNCHANGED <<MEMSET, app_vars, clock, args, res, buf, ptr, i, sent, emitted, go_ignored, saw_stop, iter_start, plan_vars, figures>>

\* except Exception as e: res.error = ...; return res
ReadFail ==
    /\ pc = "read"
    /\ res' = [res EXCEPT !.error = ERR_READ]
    /\ buf' = NoBuf
    /\ loc' = NoLocals
    /\ ptr' = FALSE
    /\ emitted' = <<>>
    /\ iter_start' = 0
    /\ pc' = "put"
    /\ UNCHANGED <<MEMSET, app_vars, clock, args, i, sent, go_ignored, saw_stop, plan_vars, figures>>

\* the locals after t3 = perf_counter(); read_time += t3 - t2;
\* read_bytes += len(buf); loops += 1
\* (t0 and t2 are not read again before they are set again: the model
\* forgets them here)
AfterRead(l, data, now) ==
    [l EXCEPT !.read_time = @ + (now - l.t2),
              !.read_bytes = AddBytes(@, data),
              !.loops = @ + 1,
              !.t0 = 0,
              !.t2 = 0]

\* mutant: the report moves the time baselines only, not the byte baselines
Rebase_TimesOnly(l, now) ==
    [l EXCEPT !.last_report = now,
              !.last_wt = l.write_time,
              !.last_rt = l.read_time]

\* last_report = now; last_wb, last_rb, last_wt, last_rt = the counters
Rebase(l, now) ==
    [l EXCEPT !.last_report = now,
              !.last_wb = l.write_bytes,
              !.last_rb = l.read_bytes,
              !.last_wt = l.write_time,
              !.last_rt = l.read_time]

\* the end of an iteration: t3 = perf_counter() and the read is accounted;
\* now = perf_counter(), a second reading, and when a report is due
\* progress_cb({...}) is called and the baseline moves
ReadEnd ==
    /\ pc = "r1"
    /\ \E now \in Readings(clock, loc.t_end + MaxOverrun) :
          LET l == AfterRead(loc, buf.data, clock)
          IN  /\ IF ReportDue(args.progress_cb, now, l.last_report)
                    THEN /\ ui_q' = Append(ui_q, ProgressMsg(Snapshot(l, now), args.duration_s))
                         /\ sent' = Append(sent, "progress")
                         /\ emitted' = Append(emitted, [elapsed |-> Snapshot(l, now).elapsed,
                                                         loops |-> Snapshot(l, now).loops])
                         /\ loc' = Rebase(l, now)
                    ELSE /\ loc' = l
                         /\ UNCHANGED <<ui_q, sent, emitted>>
              /\ clock' = now
    /\ iter_start' = 0
    /\ pc' = "loop"
    /\ UNCHANGED <<MEMSET, stop_event, btn_go, btn_stop, lbl_status, args, res,
                   buf, ptr, i, go_ignored, saw_stop, plan_vars, figures>>

\* progress_cb raises (MemoryError building the dict or the message): no
\* handler of run_benchmark catches it, and its locals are not read again
ReportRaise ==
    /\ pc = "r1"
    /\ \E now \in Readings(clock, loc.t_end + MaxOverrun) :
          /\ ReportDue(args.progress_cb, now, loc.last_report)
          /\ clock' = now
    /\ loc' = NoLocals
    /\ emitted' = <<>>
    /\ iter_start' = 0
    /\ pc' = "raise"
    /\ UNCHANGED <<MEMSET, app_vars, args, res, buf, ptr, i, sent, go_ignored, saw_stop, plan_vars, figures>>

\* mutant: a run that ends with the cancellation flag set is not ok
Finalize_CancelledFails ==
    /\ pc = "loop"
    /\ ~LoopCond(stop_event, clock, loc.t_end)
    /\ res' = [res EXCEPT !.ok = ResultOk(res.error) /\ ~stop_event,
                          !.write_bytes = loc.write_bytes,
                          !.read_bytes = loc.read_bytes,
                          !.write_time = loc.write_time,
                          !.read_time = loc.read_time,
                          !.checksum = loc.checksum,
                          !.loops = loc.loops]
    /\ buf' = NoBuf
    /\ loc' = NoLocals
    /\ ptr' = FALSE
    /\ i' = 0
    /\ emitted' = <<>>
    /\ saw_stop' = stop_event
    /\ pc' = "put"
    /\ UNCHANGED <<MEMSET, app_vars, clock, args, sent, go_ignored, iter_start, plan_vars, figures>>

\* the while condition fails: res.ok = not bool(res.error); the counters go
\* into res; return res
Finalize ==
    /\ pc = "loop"
    /\ ~LoopCond(stop_event, clock, loc.t_end)
    /\ res' = [res EXCEPT !.ok = ResultOk(res.error),
                          !.write_bytes = loc.write_bytes,
                          !.read_bytes = loc.read_bytes,
                          !.write_time = loc.write_time,
                          !.read_time = loc.read_time,
                          !.checksum = loc.checksum,
                          !.loops = loc.loops]
    /\ buf' = NoBuf
    /\ loc' = NoLocals
    /\ ptr' = FALSE
    /\ i' = 0
    /\ emitted' = <<>>
    /\ saw_stop' = stop_event
    /\ pc' = "put"
    /\ UNCHANGED <<MEMSET, app_vars, clock, args, sent, go_ignored, iter_start, plan_vars, figures>>

\* worker: self._ui_q.put({"type": "done", "result": res, "dur": duration_s})
PutDone ==
    /\ pc = "put"
    /\ ui_q' = Append(ui_q, DoneMsg(res, args.duration_s))
    /\ sent' = Append(sent, "done")
    /\ pc' = "exit"
    /\ UNCHANGED <<MEMSET, stop_event, btn_go, btn_stop, lbl_status, clock, args, res,
                   buf, ptr, i, loc, emitted, go_ignored, saw_stop, iter_start, plan_vars, figures>>

\* mutant: after the error message the worker goes on to put a done message
PutError_ThenDone ==
    /\ pc = "raise"
    /\ ui_q' = Append(ui_q, ErrorMsg("unexpected"))
    /\ sent' = Append(sent, "error")
    /\ pc' = "put"
    /\ UNCHANGED <<MEMSET, stop_event, btn_go, btn_stop, lbl_status, clock, args, res,
                   buf, ptr, i, loc, emitted, go_ignored, saw_stop, iter_start, plan_vars, figures>>

\* worker: except Exception as e: self._ui_q.put({"type": "error", ...})
PutError ==
    /\ pc = "raise"
    /\ ui_q' = Append(ui_q, ErrorMsg("unexpected"))
    /\ sent' = Append(sent, "error")
    /\ pc' = "exit"
    /\ UNCHANGED <<MEMSET, stop_event, btn_go, btn_stop, lbl_status, clock, args, res,
                   buf, ptr, i, loc, emitted, go_ignored, saw_stop, iter_start, plan_vars, figures>>

\* worker() returns: the thread is no longer alive, its frames are gone
ThreadExit ==
    /\ pc = "exit"
    /\ pc' = "dead"
    /\ buf' = NoBuf
    /\ loc' = NoLocals
    /\ ptr' = FALSE
    /\ i' = 0
    /\ UNCHANGED <<MEMSET, app_vars, clock, args, res, sent, emitted, go_ignored, saw_stop, iter_start, plan_vars, figures>>

\* where the worker next reads the clock on its own: t0_global after priming,
\* the loop test, t1 after the write and t3 after the read.  The readings t0,
\* t2 and now follow one of these in the same step, which chooses them.
ClockReaders == {"t0g", "loop", "w1", "r1"}

\* time passes: the next perf_counter() reading is one tick later.  Priming
\* takes at most MaxPrimeTicks, and the clock stops MaxOverrun past t_end.
Advance ==
    /\ pc \in ClockReaders
    /\ IF pc = "t0g" THEN clock < MaxPrimeTicks ELSE clock < loc.t_end + MaxOverrun
    /\ clock' = clock + 1
    /\ UNCHANGED <<MEMSET, app_vars, run_vars, go_ignored, saw_stop, iter_start, plan_vars, figures>>

Worker ==
    \/ RunStart \/ AllocOk \/ AllocFail \/ View \/ ViewRaise
    \/ PrimeMemset \/ PrimeChunk \/ PrimeFail \/ LoopInit
    \/ LoopEnter \/ WriteMemset \/ WriteChunk \/ WriteFail \/ WriteEnd
    \/ ReadOk \/ ReadFail \/ ReadEnd \/ ReportRaise
    \/ Finalize \/ PutDone \/ PutError \/ ThreadExit


\* ------------------------------------------------------- the controller: App

\* what the minutes entry can hold: text that float() rejects; a finite
\* number, given as the duration minutes * 60.0 it stands for, in ticks:
\* negative, zero, and 0.6 s, which the engine raises to its 1.0 s floor
\* (SpecEngine runs the engine with a duration above the floor); or text
\* that float() reads as nan or inf ("nan", "inf", "1e309")
Entries ==
    {[kind |-> "text", ticks |-> 0], [kind |-> "nan", ticks |-> 0],
     [kind |-> "inf", ticks |-> 0]}
        \cup {[kind |-> "finite", ticks |-> t] : t \in {-1, 0, 3}}

\* float(self.var_minutes.get().strip()) succeeds and not minutes <= 0
\* (nan <= 0 and inf <= 0 are both False)
ValidEntry(e) == e.kind # "text" /\ ~(e.kind = "finite" /\ e.ticks <= 0)

\* _fmt_mmss(duration_s) returns: int(seconds) raises ValueError for nan and
\* OverflowError for inf
fmt_mmss_ok(e) == e.kind = "finite"

\* the size choose_100_percent_allocation hands to the worker, scaled down to
\* a buffer of MaxBufLen bytes: several chunks, the last one partial
AllocSizes == {MaxBufLen}

\* on_go and on_stop are the commands of the GO and STOP buttons: Tk runs a
\* button's command only while the button is enabled.

\* on_go: if self._worker_thread and self._worker_thread.is_alive(): return
OnGoIgnored ==
    /\ btn_go = "normal"
    /\ ThreadAlive(pc)
    /\ go_ignored' = TRUE
    /\ UNCHANGED <<MEMSET, app_vars, run_vars, clock, saw_stop, iter_start, plan_vars, figures>>

\* on_go: the entry is rejected: messagebox.showerror(...); return
OnGoRejected ==
    /\ btn_go = "normal"
    /\ ~ThreadAlive(pc)
    /\ \E e \in Entries : ~ValidEntry(e)
    /\ UNCHANGED vars

\* on_go with an entry that passes the check and whose duration is nan or
\* inf: the flag is cleared and the widgets are set for a run, then
\* _fmt_mmss(duration_s) raises; on_go ends there, before the worker thread
\* is created, and Tk's event loop goes on
OnGoRaise ==
    /\ btn_go = "normal"
    /\ ~ThreadAlive(pc)
    /\ \E e \in Entries : ValidEntry(e) /\ ~fmt_mmss_ok(e)
    /\ stop_event' = FALSE
    /\ btn_go' = "disabled"
    /\ btn_stop' = "normal"
    /\ lbl_status' = "TESTING"
    /\ UNCHANGED <<MEMSET, ui_q, run_vars, clock, go_ignored, saw_stop, iter_start, plan_vars, figures>>

\* mutant: on_go starts the worker without clearing the flag
OnGoStart_KeepFlag ==
    /\ btn_go = "normal"
    /\ ~ThreadAlive(pc)
    /\ \E e \in Entries, alloc \in AllocSizes :
          /\ ValidEntry(e)
          /\ fmt_mmss_ok(e)
          /\ args' = [size_bytes |-> alloc, duration_s |-> e.ticks, progress_cb |-> TRUE]
    /\ btn_go' = "disabled"
    /\ btn_stop' = "normal"
    /\ lbl_status' = "TESTING"
    /\ clock' = 0
    /\ pc' = "start"
    /\ res' = NewResult
    /\ sent' = <<>>
    /\ emitted' = <<>>
    /\ go_ignored' = FALSE
    /\ saw_stop' = FALSE
    /\ UNCHANGED <<MEMSET, stop_event, ui_q, buf, ptr, i, loc, iter_start, plan_vars, figures>>

\* on_go: clear the flag, set the buttons, start the worker thread
OnGoStart ==
    /\ btn_go = "normal"
    /\ ~ThreadAlive(pc)
    /\ \E e \in Entries, alloc \in AllocSizes :
          /\ ValidEntry(e)
          /\ fmt_mmss_ok(e)
          /\ args' = [size_bytes |-> alloc, duration_s |-> e.ticks, progress_cb |-> TRUE]
    /\ stop_event' = FALSE
    /\ btn_go' = "disabled"
    /\ btn_stop' = "normal"
    /\ lbl_status' = "TESTING"
    /\ clock' = 0
    /\ pc' = "start"
    /\ res' = NewResult
    /\ sent' = <<>>
    /\ emitted' = <<>>
    /\ go_ignored' = FALSE
    /\ saw_stop' = FALSE
    /\ UNCHANGED <<MEMSET, ui_q, buf, ptr, i, loc, iter_start, plan_vars, figures>>

\* mutant: on_stop toggles the flag, so a second call withdraws the first
OnStop_Toggle ==
    /\ btn_stop = "normal"
    /\ stop_event' = ~stop_event
    /\ lbl_status' = "STOPPING"
    /\ UNCHANGED <<MEMSET, ui_q, btn_go, btn_stop, run_vars, clock, go_ignored, saw_stop, iter_start, plan_vars, figures>>

\* on_stop: self._stop_event.set(); self._set_status("STOPPING")
OnStop ==
    /\ btn_stop = "normal"
    /\ stop_event' = TRUE
    /\ lbl_status' = "STOPPING"
    /\ UNCHANGED <<MEMSET, ui_q, btn_go, btn_stop, run_vars, clock, go_ignored, saw_stop, iter_start, plan_vars, figures>>

\* _on_done: status = "STOPPED" if stop is set and r.ok else ("DONE" if r.ok else "FAILED")
DoneStatus(stop, r) == IF stop /\ r.ok THEN "STOPPED" ELSE IF r.ok THEN "DONE" ELSE "FAILED"

\* the widgets after _tick has handled one message
Handle(ui, msg) ==
    IF msg.type = "done"
        THEN [btn_go |-> "normal", btn_stop |-> "disabled",
              lbl_status |-> DoneStatus(stop_event, msg.result)]
    ELSE IF msg.type = "error"
        THEN [btn_go |-> "normal", btn_stop |-> "disabled", lbl_status |-> "ERROR"]
    ELSE ui

\* mutant: _tick handles only the first message of the queue it empties
Drain_FirstOnly(ui, q, k) == IF k > Len(q) THEN ui ELSE Handle(ui, q[k])

RECURSIVE Drain(_, _, _)
\* while True: msg = self._ui_q.get_nowait(); ... until queue.Empty
Drain(ui, q, k) == IF k > Len(q) THEN ui ELSE Drain(Handle(ui, q[k]), q, k + 1)

\* _tick: handle every queued message in order, leaving the queue empty
Tick ==
    LET ui == Drain([btn_go |-> btn_go, btn_stop |-> btn_stop, lbl_status |-> lbl_status],
                    ui_q, 1)
    IN  /\ ui_q' = <<>>
        /\ btn_go' = ui.btn_go
        /\ btn_stop' = ui.btn_stop
        /\ lbl_status' = ui.lbl_status
        /\ UNCHANGED <<MEMSET, stop_event, run_vars, clock, go_ignored, saw_stop, iter_start, plan_vars, figures>>

\* ------------------------------------------------------------ specification

\* App.__init__ ; MEMSET = get_ctypes_memset()
Init ==
    /\ MEMSET \in BOOLEAN
    /\ stop_event = FALSE
    /\ pc = "none"
    /\ ui_q = <<>>
    /\ btn_go = "normal"
    /\ btn_stop = "disabled"
    /\ lbl_status = "READY"
    /\ clock = 0
    /\ args = NoArgs
    /\ res = NewResult
    /\ buf = NoBuf
    /\ ptr = FALSE
    /\ i = 0
    /\ loc = NoLocals
    /\ sent = <<>>
    /\ emitted = <<>>
    /\ go_ignored = FALSE
    /\ saw_stop = FALSE
    /\ iter_start = 0
    /\ vm_total = 0
    /\ vm_avail = 0
    /\ planned = FALSE
    /\ target_bytes = 0
    /\ figures = NoFigures

Next ==
    \/ OnGoIgnored \/ OnGoRejected \/ OnGoRaise \/ OnGoStart \/ OnStop \/ Tick
    \/ Worker
    \/ Advance

Spec == Init /\ [][Next]_vars

\* the scheduling the liveness claims assume: the worker thread runs, the
\* poller is rescheduled by after(120, ...), and the clock advances
SpecLive == Spec /\ WF_vars(Worker) /\ WF_vars(Tick) /\ WF_vars(Advance)

\* ------------------------------------- specification of the sizing policy

MemUnit == 64 * MiB
\* memory readings around every threshold of the policy, up to MaxMemUnits units
MemReadings == {u * MemUnit + d : u \in (-1)..MaxMemUnits, d \in {-1, 0, 1}}

InitPlan ==
    /\ MEMSET = FALSE
    /\ stop_event = FALSE
    /\ pc = "none"
    /\ ui_q = <<>>
    /\ btn_go = "normal"
    /\ btn_stop = "disabled"
    /\ lbl_status = "READY"
    /\ clock = 0
    /\ args = NoArgs
    /\ res = NewResult
    /\ buf = NoBuf
    /\ ptr = FALSE
    /\ i = 0
    /\ loc = NoLocals
    /\ sent = <<>>
    /\ emitted = <<>>
    /\ go_ignored = FALSE
    /\ saw_stop = FALSE
    /\ iter_start = 0
    /\ vm_total \in MemReadings
    /\ vm_avail \in MemReadings
    /\ planned = FALSE
    /\ target_bytes = 0
    /\ figures = NoFigures

\* alloc = choose_100_percent_allocation()
Plan ==
    /\ ~planned
    /\ planned' = TRUE
    /\ target_bytes' = choose_100_percent_allocation(vm_total, vm_avail)
    /\ UNCHANGED <<MEMSET, app_vars, run_vars, clock, go_ignored, saw_stop, iter_start, vm_total, vm_avail, figures>>

SpecPlan == InitPlan /\ [][Plan]_vars


\* ------------------------------------------- specification of the engine

\* the durations run_benchmark can be called with, in ticks: negative, zero,
\* below the 1.0 s floor, and above it
EngineDurations == {-1, 0, 3, 6}

\* a caller has just called run_benchmark(size_bytes, duration_s, stop_event,
\* progress_cb) from a worker thread, with any duration, and with a progress_cb
\* or with None
InitEngine ==
    /\ MEMSET \in BOOLEAN
    /\ stop_event = FALSE
    /\ pc = "start"
    /\ ui_q = <<>>
    /\ btn_go = "disabled"
    /\ btn_stop = "normal"
    /\ lbl_status = "TESTING"
    /\ clock = 0
    /\ args \in [size_bytes : AllocSizes, duration_s : EngineDurations,
                  progress_cb : BOOLEAN]
    /\ res = NewResult
    /\ buf = NoBuf
    /\ ptr = FALSE
    /\ i = 0
    /\ loc = NoLocals
    /\ sent = <<>>
    /\ emitted = <<>>
    /\ go_ignored = FALSE
    /\ saw_stop = FALSE
    /\ iter_start = 0
    /\ vm_total = 0
    /\ vm_avail = 0
    /\ planned = FALSE
    /\ target_bytes = 0
    /\ figures = NoFigures

\* the call runs to its end while time passes and the caller may set the flag
NextEngine == Worker \/ Advance \/ OnStop

SpecEngine == InitEngine /\ [][NextEngine]_vars


\* ------------------------------- specification of the throughput figures

\* byte and time counters around zero: no phase, one and two phases over a
\* buffer of MaxBufLen bytes; no tick, one and two ticks
CounterBytes == {0, MaxBufLen, 2 * MaxBufLen}
CounterTimes == {0, 1, 2}

\* a result and the locals of an iteration's end holding any counters, the
\* report baseline at zero or at the counter itself
InitRates ==
    /\ MEMSET = FALSE
    /\ stop_event = FALSE
    /\ pc = "none"
    /\ ui_q = <<>>
    /\ btn_go = "normal"
    /\ btn_stop = "disabled"
    /\ lbl_status = "READY"
    /\ clock = 0
    /\ args = NoArgs
    /\ \E wb, rb \in CounterBytes, wt, rt \in CounterTimes, bw, br, tw, tr \in BOOLEAN :
          /\ res = [NewResult EXCEPT !.write_bytes = wb, !.read_bytes = rb,
                                     !.write_time = wt, !.read_time = rt]
          /\ loc = [NoLocals EXCEPT !.write_bytes = wb, !.read_bytes = rb,
                                    !.write_time = wt, !.read_time = rt,
                                    !.last_wb = IF bw THEN wb ELSE 0,
                                    !.last_rb = IF br THEN rb ELSE 0,
                                    !.last_wt = IF tw THEN wt ELSE 0,
                                    !.last_rt = IF tr THEN rt ELSE 0]
    /\ buf = NoBuf
    /\ ptr = FALSE
    /\ i = 0
    /\ sent = <<>>
    /\ emitted = <<>>
    /\ go_ignored = FALSE
    /\ saw_stop = FALSE
    /\ iter_start = 0
    /\ vm_total = 0
    /\ vm_avail = 0
    /\ planned = FALSE
    /\ target_bytes = 0
    /\ figures = NoFigures

\* _on_done reads r.total_gbps, r.write_gbps and r.read_gbps
ResultFigures ==
    /\ figures.kind = "none"
    /\ figures' = [kind |-> "result",
                   rates |-> <<write_gbps(res), read_gbps(res), total_gbps(res)>>]
    /\ UNCHANGED <<MEMSET, app_vars, run_vars, clock, go_ignored, saw_stop, iter_start, plan_vars>>

\* the report computes inst_write, inst_read, inst_total, avg_write, avg_read
SnapshotFigures ==
    /\ figures.kind = "none"
    /\ LET d == Snapshot(loc, clock)
       IN  figures' = [kind |-> "snapshot",
                       rates |-> <<d.inst_write, d.inst_read, d.inst_total,
                                   d.avg_write, d.avg_read>>]
    /\ UNCHANGED <<MEMSET, app_vars, run_vars, clock, go_ignored, saw_stop, iter_start, plan_vars>>

NextRates == ResultFigures \/ SnapshotFigures

SpecRates == InitRates /\ [][NextRates]_vars


\* ------------------------------------------------------------------ claims

Terminal == {"done", "error"}

\* the worker has put its terminal message
TerminalSent == \E k \in 1..Len(sent) : sent[k] \in Terminal

\* the controller is ready for the next run: GO enabled, STOP disabled
Ready == btn_go = "normal" /\ btn_stop = "disabled"

\* run_benchmark has returned res (to worker, which puts it and exits)
Returned == pc \in {"put", "exit", "dead"}

\* the results run_benchmark has returned: the one worker holds, and those
\* travelling to the controller in done messages
ReturnedResults ==
    (IF Returned THEN {res} ELSE {})
        \cup {ui_q[k].result : k \in {n \in 1..Len(ui_q) : ui_q[n].type = "done"}}

\* C1: every returned result with ok = TRUE has write_bytes and read_bytes
\* equal to loops * allocated_bytes, whether the run ended by timeout or by
\* cancellation.
C1_ByteCounters ==
    \A r \in ReturnedResults :
        r.ok => /\ r.write_bytes = r.loops * r.allocated_bytes
                /\ r.read_bytes = r.loops * r.allocated_bytes

\* a cancelled run returns ok after two iterations
C1_Witness ==
    /\ pc = "put"
    /\ stop_event
    /\ res.ok
    /\ res.loops = 2
    /\ res.write_bytes = 2 * res.allocated_bytes

NumTerminal(h) == Cardinality({k \in 1..Len(h) : h[k] \in Terminal})

\* C2: the worker of a run puts at most one terminal message, nothing after
\* it, none while run_benchmark is still running, and exactly one by the time
\* it finishes, on every path.
C2_OneTerminalLast ==
    /\ NumTerminal(sent) <= 1
    /\ NumTerminal(sent) = 1 => sent[Len(sent)] \in Terminal
    /\ pc \in {"exit", "dead"} => NumTerminal(sent) = 1
    /\ pc \notin {"none", "exit", "dead"} => NumTerminal(sent) = 0

\* a run whose progress messages are followed by the error message
C2_Witness ==
    /\ pc = "exit"
    /\ Len(sent) >= 2
    /\ sent[1] = "progress"
    /\ sent[Len(sent)] = "error"

\* the worker thread exists and has not finished
WorkerAlive == pc \notin {"none", "dead"}

\* C3: a run begins (GO goes from enabled to disabled, a thread is started)
\* only when no worker is alive; while a worker is alive the cancellation
\* flag is never cleared; and a start request made while a worker is alive
\* changes neither the flag, the queue, the widgets nor the worker.
C3_NoSecondWorker ==
    [][/\ (btn_go = "normal" /\ btn_go' = "disabled") => ~WorkerAlive
       /\ (WorkerAlive /\ stop_event) => stop_event'
       /\ (go_ignored' /\ ~go_ignored) =>
              (WorkerAlive /\ UNCHANGED <<app_vars, run_vars, clock>>)]_vars

\* a start request was made while the worker of a handled run was still
\* alive, and was ignored
C3_Witness ==
    /\ go_ignored
    /\ pc = "exit"
    /\ btn_go = "normal"

\* C4 (as claimed): a write phase that has ended has run over the whole
\* buffer, whichever write primitive is in use.
C4_WritePhaseCoversBuffer == pc = "w1" => AllBytes(buf.data, WRITE_BYTE)

\* C5 (as claimed): when a write or read phase fails, the returned result has
\* ok = FALSE and a non-empty error and carries the counters accumulated so
\* far: loops, read_bytes and read_time of the completed iterations, and the
\* write counters of at least those iterations.
C5_PartialCountersKept ==
    [][(pc \in {"write", "read"} /\ pc' = "put") =>
          /\ ~res'.ok
          /\ res'.error # ERR_NONE
          /\ res'.loops = loc.loops
          /\ res'.read_bytes = loc.read_bytes
          /\ res'.read_time = loc.read_time
          /\ res'.write_bytes >= loc.loops * res'.allocated_bytes
          /\ res'.write_bytes <= loc.write_bytes
          /\ res'.write_time <= loc.write_time]_vars

\* C6: after an allocation failure the returned result has ok = FALSE, a
\* non-empty error and zero allocated_bytes, loops and counters; the buffer
\* was never created, nothing was primed, written, read or reported, and the
\* only message of the run is the done message carrying that result.
C6_AllocationFailure ==
    res.error = ERR_ALLOC =>
        /\ Returned
        /\ res = [NewResult EXCEPT !.error = ERR_ALLOC, !.duration_s = res.duration_s]
        /\ ~res.ok /\ res.error # ERR_NONE
        /\ ~buf.live /\ buf.data = <<>> /\ loc = NoLocals
        /\ sent \in {<<>>, <<"done">>}
        /\ pc \in {"exit", "dead"} => sent = <<"done">>
        /\ \A k \in 1..Len(ui_q) : /\ ui_q[k].type = "done"
                                    /\ ui_q[k].result = res

\* the failed allocation has been reported to the controller as FAILED
C6_Witness ==
    /\ res.error = ERR_ALLOC
    /\ pc = "dead"
    /\ ui_q = <<>>
    /\ lbl_status = "FAILED"

\* C7 (as claimed): for every reading with total > 0 the plan is at least
\* 256 MiB and at most total.
C7_PlanWithinTotal ==
    (planned /\ vm_total > 0) =>
        /\ target_bytes >= 256 * MiB
        /\ target_bytes <= vm_total

\* C7 (amended): for every reading with total > 0 the plan is at least
\* 256 MiB and at most max(total, 256 MiB): it is at most total whenever
\* total >= 256 MiB, and it is the 256 MiB floor below that.
C7_PlanWithinTotalOrFloor ==
    (planned /\ vm_total > 0) =>
        /\ target_bytes >= 256 * MiB
        /\ target_bytes <= Max(vm_total, 256 * MiB)
        /\ vm_total >= 256 * MiB => target_bytes <= vm_total
        /\ vm_total < 256 * MiB => target_bytes = 256 * MiB

\* a plan above the floor and below the total
C7_Witness ==
    /\ planned
    /\ vm_total > 384 * MiB
    /\ vm_avail > 0
    /\ target_bytes > 256 * MiB
    /\ target_bytes < vm_total

\* C8: the plan is 1 GiB when total <= 0, and otherwise
\* max(256 MiB, min(target, hard_fallback)) with target = max(256 MiB,
\* total - 128 MiB) and hard_fallback = max(256 MiB, available - 64 MiB) when
\* available > 0, else target.
C8_PlanFormula ==
    planned =>
        LET t == IF vm_total - 128 * MiB >= 256 * MiB
                    THEN vm_total - 128 * MiB ELSE 256 * MiB
            h == IF vm_avail > 0
                    THEN (IF vm_avail - 64 * MiB >= 256 * MiB
                             THEN vm_avail - 64 * MiB ELSE 256 * MiB)
                    ELSE t
            m == IF t <= h THEN t ELSE h
        IN  IF vm_total <= 0
               THEN target_bytes = 1024 * MiB
               ELSE target_bytes = (IF m >= 256 * MiB THEN m ELSE 256 * MiB)

\* a plan decided by the available memory: available - 64 MiB, below
\* total - 128 MiB and above the floor
C8_Witness ==
    /\ planned
    /\ vm_total > 0
    /\ vm_avail > 320 * MiB
    /\ target_bytes = vm_avail - 64 * MiB
    /\ target_bytes < vm_total - 128 * MiB

\* C9: under fair scheduling of the worker, the poller and the clock, every
\* started run leads to its terminal message having been put and handled by
\* _tick, which returns the controller to the ready state.
C9_RunIsReported == (pc = "start") ~> (TerminalSent /\ Ready /\ ui_q = <<>>)

\* a run that ended by timeout has been reported and the controller is ready
C9_Witness ==
    /\ pc = "dead"
    /\ TerminalSent
    /\ Ready
    /\ ui_q = <<>>
    /\ lbl_status = "DONE"


\* C10: with the cancellation flag set, the loop condition starts no new
\* iteration: from the loop head the worker only leaves the loop, returning
\* a result with ok = TRUE (no error is pending there); and the flag, once
\* set, stays set for as long as the worker is alive.
C10_NoNewIterationAfterStop ==
    [][/\ (stop_event /\ pc = "loop") => pc' \in {"loop", "put"}
       /\ (stop_event /\ pc = "loop" /\ pc' = "put") =>
              (res'.ok /\ res'.error = ERR_NONE /\ res'.loops = loc.loops)
       /\ (stop_event /\ WorkerAlive) => stop_event']_vars

\* a run cancelled during its first iteration has returned, before any
\* deadline, an ok result of that one iteration
C10_Witness ==
    /\ stop_event
    /\ pc = "put"
    /\ res.ok
    /\ res.loops = 1
    /\ clock < TicksPerSec

\* C11: when the cancellation flag is set at the worker's first loop-condition
\* check (it was set during allocation or priming), no iteration starts and
\* the run returns a result with ok = TRUE, loops = 0 and zero byte counters,
\* time counters and checksum; and whatever path returns a result, its
\* counters are those of whole iterations only.
C11_CancelBeforeFirstCheck ==
    [][/\ (pc = "loop" /\ loc.loops = 0 /\ stop_event) =>
              /\ pc' \in {"loop", "put"}
              /\ pc' = "put" =>
                     /\ res'.ok
                     /\ res'.error = ERR_NONE
                     /\ res'.loops = 0
                     /\ res'.write_bytes = 0 /\ res'.read_bytes = 0
                     /\ res'.write_time = 0 /\ res'.read_time = 0
                     /\ res'.checksum = Checksum0
                     /\ res'.allocated_bytes = Len(buf.data)
       /\ (pc # "put" /\ pc' = "put") =>
              /\ res'.write_bytes = res'.loops * res'.allocated_bytes
              /\ res'.read_bytes = res'.loops * res'.allocated_bytes
              /\ res'.loops = 0 => (res'.write_time = 0 /\ res'.read_time = 0)]_vars

\* a run cancelled before its first loop-condition check has returned, well
\* before its deadline, an ok result of no iteration
C11_Witness ==
    /\ pc = "put"
    /\ stop_event
    /\ res.ok
    /\ res.loops = 0
    /\ res.write_bytes = 0
    /\ res.allocated_bytes = MaxBufLen
    /\ clock < res.duration_s

\* C12: on_stop is idempotent within a run: whenever STOP can be pressed
\* with the flag already set by an earlier on_stop of the run, the status
\* still reads STOPPING, and a further on_stop changes nothing at all; a
\* cancelled run's worker still puts at most one terminal message.
C12_CancelIdempotent ==
    [][/\ (OnStop /\ stop_event) => UNCHANGED vars
       /\ (stop_event' /\ btn_stop' = "normal") => lbl_status' = "STOPPING"
       /\ stop_event' => NumTerminal(sent') <= 1]_vars

\* on_stop has been called in the middle of an iteration of a running
\* worker, and STOP is still enabled for a further call
C12_Witness ==
    /\ stop_event
    /\ btn_stop = "normal"
    /\ lbl_status = "STOPPING"
    /\ pc = "read"
    /\ loc.loops = 1
    /\ ENABLED OnStop

\* the positions of the progress messages in a queue
ProgressAt(q) == {k \in 1..Len(q) : q[k].type = "progress"}

\* C13: the snapshots of a run are emitted with strictly increasing elapsed
\* and strictly increasing loops, and they wait in the queue, which the
\* poller empties front to back, in that same order; the newest snapshot of
\* the queue is the newest one emitted.
C13_SnapshotsMonotonic ==
    /\ \A j, k \in 1..Len(emitted) :
           j < k => /\ emitted[j].elapsed < emitted[k].elapsed
                    /\ emitted[j].loops < emitted[k].loops
    /\ \A j, k \in ProgressAt(ui_q) :
           j < k => /\ ui_q[j].data.elapsed < ui_q[k].data.elapsed
                    /\ ui_q[j].data.loops < ui_q[k].data.loops
    /\ \A k \in ProgressAt(ui_q) :
           emitted # <<>> =>
               /\ ui_q[k].data.elapsed <= emitted[Len(emitted)].elapsed
               /\ ui_q[k].data.loops <= emitted[Len(emitted)].loops
    /\ \A k \in 1..Len(emitted) : emitted[k].elapsed > 0 /\ emitted[k].loops >= 1

\* two snapshots have been emitted; the poller has consumed the first and
\* the second waits in the queue
C13_Witness ==
    /\ Len(emitted) = 2
    /\ Len(ui_q) = 1
    /\ ui_q[1].type = "progress"
    /\ ui_q[1].data.loops = emitted[2].loops
    /\ ui_q[1].data.elapsed = emitted[2].elapsed

\* C14: a snapshot is emitted only by the step that ends an iteration (the
\* read has been timed and accounted, loops has grown, no timed phase is
\* open), and only when at least 0.2 s have passed since the previous
\* emission, or since t0_global for the first one; so consecutive emissions
\* are at least 0.2 s apart; and every progress message put in the queue is
\* such an emission.
C14_EmissionRateLimited ==
    [][/\ (Len(emitted') > Len(emitted)) =>
              /\ pc = "r1" /\ pc' = "loop"
              /\ loc'.loops = loc.loops + 1
              /\ loc'.read_bytes = loc.read_bytes + Len(buf.data)
              /\ loc'.t0 = 0 /\ loc'.t2 = 0
              /\ Len(emitted') = Len(emitted) + 1
              /\ clock' - loc.last_report >= ReportTicks
              /\ loc'.last_report = clock'
              /\ emitted'[Len(emitted')].elapsed = clock' - loc.t0_global
              /\ LET e == emitted'[Len(emitted')].elapsed
                 IN  IF emitted = <<>>
                        THEN e >= ReportTicks
                        ELSE e - emitted[Len(emitted)].elapsed >= ReportTicks
       /\ (Len(ui_q') > Len(ui_q) /\ ui_q'[Len(ui_q')].type = "progress") =>
              /\ Len(emitted') = Len(emitted) + 1
              /\ ui_q'[Len(ui_q')].data.elapsed = emitted'[Len(emitted')].elapsed
              /\ ui_q'[Len(ui_q')].data.loops = emitted'[Len(emitted')].loops]_vars

\* the first iteration ended before a report was due and emitted nothing;
\* the second one emitted the run's first snapshot
C14_Witness ==
    /\ pc = "loop"
    /\ Len(emitted) = 1
    /\ emitted[1].loops = 2
    /\ emitted[1].elapsed >= ReportTicks

\* the worker is inside an iteration: between the loop check and loops += 1
InIteration(p) == p \in {"write", "w1", "read", "r1"}

\* C15: an iteration starts only when the loop test reads an elapsed time
\* (since t0_global) below the clamped duration_s; once the elapsed time has
\* reached duration_s the loop test only leaves the loop; so every iteration
\* in progress began, at its loop test, before the deadline, and a snapshot's
\* elapsed exceeds duration_s by less than the length of the iteration that
\* emitted it, from its loop test to the reading the report is made at.
C15_OverrunOneIteration ==
    [][/\ (pc = "loop" /\ pc' = "write") =>
              /\ clock - loc.t0_global < loc.duration_s
              /\ iter_start' = clock
              /\ loc'.t0 >= clock
       /\ (pc = "loop" /\ clock - loc.t0_global >= loc.duration_s) =>
              pc' \in {"loop", "put"}
       /\ InIteration(pc') => iter_start' - loc'.t0_global < loc'.duration_s
       /\ (Len(emitted') > Len(emitted)) =>
              /\ InIteration(pc)
              /\ emitted'[Len(emitted')].elapsed - loc.duration_s < clock' - iter_start
              /\ loc.duration_s = res.duration_s]_vars

\* an iteration that began before the deadline ended after it, and its
\* snapshot reports an elapsed time above duration_s
C15_Witness ==
    /\ pc = "loop"
    /\ emitted # <<>>
    /\ emitted[Len(emitted)].elapsed > loc.duration_s
    /\ clock >= loc.t_end

\* C16: for every requested duration the result records max(1.0 s,
\* duration_s) as its duration and the loop's budget t_end - t0_global is
\* that value; for every duration_s <= 0 both are exactly 1.0 s.
C16_DurationClamped ==
    LET eff == IF args.duration_s >= TicksPerSec THEN args.duration_s ELSE TicksPerSec
    IN  /\ pc # "start" => res.duration_s = eff
        /\ (pc = "loop" \/ InIteration(pc)) =>
               /\ loc.duration_s = eff
               /\ loc.t_end - loc.t0_global = eff
        /\ \A k \in 1..Len(ui_q) :
               ui_q[k].type = "done" => ui_q[k].result.duration_s = eff
        /\ args.duration_s <= 0 =>
               /\ eff = 1 * TicksPerSec
               /\ (pc = "put" /\ res.ok /\ ~stop_event) =>
                      clock >= 1 * TicksPerSec

\* a run requested with a duration <= 0 has used its whole 1.0 s budget,
\* without cancellation, and returned an ok result recording 1.0 s
C16_Witness ==
    /\ args.duration_s <= 0
    /\ pc = "put"
    /\ ~stop_event
    /\ res.ok
    /\ res.loops >= 1
    /\ res.duration_s = 1 * TicksPerSec
    /\ clock >= 1 * TicksPerSec

\* C17 (as claimed): whenever the worker puts its terminal message, done or
\* error, the buffer of the run has been released.
C17_BufferReleasedBeforeTerminal ==
    [][(NumTerminal(sent') > NumTerminal(sent)) => (~buf.live /\ ~buf'.live)]_vars

\* a figure is well defined when its division was not one by zero
Defined(f) == f.den # 0

\* the figure for `bytes` moved in `time`: zero when time is zero, the
\* quotient otherwise
IsRateOf(f, bytes, time) ==
    IF time = 0 THEN f.num = 0 ELSE f.num * time = bytes * f.den

\* C18: for all counter values, every throughput figure is computed without
\* a division by zero, is 0 when its time denominator is 0 and is
\* bytes / time otherwise: write_gbps, read_gbps and total_gbps of a result
\* (also one with zero loops and zero counters), and the instantaneous and
\* average rates of a snapshot.
C18_RatesZeroNoFault ==
    /\ \A k \in 1..Len(figures.rates) : Defined(figures.rates[k])
    /\ figures.kind = "result" =>
           /\ Len(figures.rates) = 3
           /\ IsRateOf(figures.rates[1], res.write_bytes, res.write_time)
           /\ IsRateOf(figures.rates[2], res.read_bytes, res.read_time)
           /\ IsRateOf(figures.rates[3], res.write_bytes + res.read_bytes,
                                         res.write_time + res.read_time)
    /\ figures.kind = "snapshot" =>
           /\ Len(figures.rates) = 5
           /\ IsRateOf(figures.rates[1], loc.write_bytes - loc.last_wb,
                                         loc.write_time - loc.last_wt)
           /\ IsRateOf(figures.rates[2], loc.read_bytes - loc.last_rb,
                                         loc.read_time - loc.last_rt)
           /\ IsRateOf(figures.rates[3],
                       (loc.write_bytes - loc.last_wb) + (loc.read_bytes - loc.last_rb),
                       (loc.write_time - loc.last_wt) + (loc.read_time - loc.last_rt))
           /\ IsRateOf(figures.rates[4], loc.write_bytes, loc.write_time)
           /\ IsRateOf(figures.rates[5], loc.read_bytes, loc.read_time)

\* the figures of a result with zero loops and zero counters have been
\* computed, and all three are 0
C18_Witness ==
    /\ figures.kind = "result"
    /\ res.loops = 0
    /\ res.write_bytes = 0 /\ res.read_bytes = 0
    /\ res.write_time = 0 /\ res.read_time = 0
    /\ \A k \in 1..3 : figures.rates[k].num = 0 /\ Defined(figures.rates[k])

\* the bytes the write phase that has just ended has overwritten: the whole
\* buffer with the bulk memset, the chunks before index i with the fallback
Overwritten == IF UseMemset(MEMSET, ptr) THEN Len(buf.data) ELSE Min(i, Len(buf.data))

\* C19 (as claimed): whenever a read phase starts, the write phase before it
\* has overwritten every byte of the buffer with the write pattern, and
\* write_bytes has grown by allocated_bytes, the number of bytes that write
\* phase has overwritten.
C19_ReadSeesWritePattern ==
    [][(pc = "w1" /\ pc' = "read") =>
          /\ AllBytes(buf'.data, WRITE_BYTE)
          /\ loc'.write_bytes = loc.write_bytes + res.allocated_bytes
          /\ loc'.write_bytes - loc.write_bytes = Overwritten]_vars

\* the measured quantities of the locals are all zero
ZeroCounters(l) ==
    /\ l.write_bytes = 0 /\ l.read_bytes = 0
    /\ l.write_time = 0 /\ l.read_time = 0
    /\ l.loops = 0
    /\ l.checksum = Checksum0

\* C20: priming, whether it completes, fails or is interrupted, only leads
\* on to the loop and leaves the result untouched; the loop is entered with
\* all measured quantities zero and with a budget of the whole duration_s
\* counted from the clock reading taken after priming; and they are still
\* zero whenever the loop condition is checked before any iteration.
C20_PrimingNotMeasured ==
    [][/\ pc = "prime" => (pc' \in {"prime", "t0g"} /\ res' = res)
       /\ pc = "t0g" => (pc' \in {"t0g", "loop"} /\ res' = res)
       /\ (pc = "t0g" /\ pc' = "loop") =>
              /\ ZeroCounters(loc')
              /\ loc'.t0_global = clock
              /\ loc'.t_end = clock + res.duration_s
              /\ loc'.last_report = clock
       /\ (pc = "loop" /\ emitted = <<>> /\ loc.loops = 0) =>
              /\ ZeroCounters(loc)
              /\ pc' = "write" => (ZeroCounters(loc') /\ loc'.t0 >= loc.t0_global)
              /\ pc' = "put" => (res'.write_time = 0 /\ res'.write_bytes = 0)]_vars

\* priming failed at its first chunk after taking time: the buffer holds no
\* primed byte, and the run is in its first iteration with nothing measured
\* yet and its whole budget ahead
C20_Witness ==
    /\ pc = "write"
    /\ i = 0
    /\ buf.data = ZeroBytes(MaxBufLen)
    /\ ZeroCounters(loc)
    /\ loc.t0_global > 0
    /\ loc.t_end = loc.t0_global + res.duration_s

\* C21 (as claimed): a finished run is labelled STOPPED only when its loop
\* ended because the loop condition read the cancellation flag as set, and a
\* run whose loop ended at its deadline with the flag clear and whose done
\* message has been handled is labelled DONE.
C21_StoppedMeansCancelled ==
    /\ lbl_status = "STOPPED" => saw_stop
    /\ (Ready /\ TerminalSent /\ ui_q = <<>> /\ res.ok /\ ~saw_stop) => lbl_status = "DONE"

\* C22: every worker starts with the cancellation flag clear, whatever was
\* requested before its start request was accepted; the flag is set only by
\* an on_stop made while STOP is enabled, which starts no worker; and it is
\* cleared only by an accepted start request, made while no worker is alive.
C22_FlagClearAtStart ==
    [][/\ (pc # "start" /\ pc' = "start") =>
              /\ ~stop_event'
              /\ ~ThreadAlive(pc)
              /\ btn_stop = "disabled" /\ btn_stop' = "normal"
       /\ (~stop_event /\ stop_event') =>
              /\ btn_stop = "normal"
              /\ pc' = pc
              /\ lbl_status' = "STOPPING"
       /\ (stop_event /\ ~stop_event') =>
              /\ ~ThreadAlive(pc)
              /\ btn_go = "normal" /\ btn_go' = "disabled"
              /\ lbl_status' = "TESTING"]_vars

\* the previous run was cancelled and has been reported as STOPPED; its
\* worker is gone, the flag is still set, and a start request accepted now
\* clears it
C22_Witness ==
    /\ stop_event
    /\ pc = "dead"
    /\ lbl_status = "STOPPED"
    /\ saw_stop
    /\ Ready
    /\ ENABLED (OnGoStart /\ ~stop_event')

\* loops at the previous emission of the run, 0 before the first one
LoopsAtLastEmission(h) == IF h = <<>> THEN 0 ELSE h[Len(h)].loops

\* the worker is in the loop: at the loop test or inside an iteration
InLoop(p) == p = "loop" \/ InIteration(p)

\* C23: at every emission the write and read byte deltas of the window are
\* allocated_bytes times the number of iterations completed since the
\* previous emission (since the loop began, for the first), the time deltas
\* are the time counted since then, and the baseline moves to the counters;
\* between emissions the baseline does not move; so the baseline always
\* stands at the counters of the latest emission and every completed
\* iteration falls in exactly one window.
C23_WindowCoversIterations ==
    [][/\ (Len(emitted') > Len(emitted)) =>
              LET n == emitted'[Len(emitted')].loops - LoopsAtLastEmission(emitted)
                  d == ui_q'[Len(ui_q')].data
              IN  /\ n >= 1
                  /\ loc'.write_bytes - loc.last_wb = res.allocated_bytes * n
                  /\ loc'.read_bytes - loc.last_rb = res.allocated_bytes * n
                  /\ d.inst_write = Rate(res.allocated_bytes * n,
                                         loc'.write_time - loc.last_wt)
                  /\ d.inst_read = Rate(res.allocated_bytes * n,
                                        loc'.read_time - loc.last_rt)
                  /\ loc'.last_wb = loc'.write_bytes /\ loc'.last_rb = loc'.read_bytes
                  /\ loc'.last_wt = loc'.write_time /\ loc'.last_rt = loc'.read_time
       /\ (InLoop(pc) /\ InLoop(pc') /\ emitted' = emitted) =>
              /\ loc'.last_wb = loc.last_wb /\ loc'.last_rb = loc.last_rb
              /\ loc'.last_wt = loc.last_wt /\ loc'.last_rt = loc.last_rt
              /\ loc'.last_report = loc.last_report
       /\ InLoop(pc') =>
              /\ loc'.last_wb = res'.allocated_bytes * LoopsAtLastEmission(emitted')
              /\ loc'.last_rb = res'.allocated_bytes * LoopsAtLastEmission(emitted')]_vars

\* two snapshots have been emitted, one per iteration: the window of the
\* second, still in the queue, holds the bytes of the second iteration only
C23_Witness ==
    /\ pc = "loop"
    /\ Len(emitted) = 2
    /\ emitted[1].loops = 1 /\ emitted[2].loops = 2
    /\ loc.last_wb = 2 * res.allocated_bytes
    /\ ui_q # <<>>
    /\ ui_q[Len(ui_q)].type = "progress"
    /\ ui_q[Len(ui_q)].data.loops = 2
    /\ ui_q[Len(ui_q)].data.inst_write.num = res.allocated_bytes

\* the results run_benchmark has returned to worker: the one worker holds
\* before and after putting it, and those in the queue's done messages
ResultsOfRuns ==
    (IF pc = "put" \/ (pc \in {"exit", "dead"} /\ sent # <<>> /\ sent[Len(sent)] = "done")
        THEN {res} ELSE {})
        \cup {ui_q[k].result : k \in {n \in 1..Len(ui_q) : ui_q[n].type = "done"}}

\* C24: every returned result has ok = TRUE exactly when its error is empty,
\* and its error is then one of the engine's messages: allocation, write or
\* read failure with ok = FALSE, cancellation or timeout with ok = TRUE.
C24_OkIffNoError ==
    \A r \in ResultsOfRuns :
        /\ r.ok <=> (r.error = ERR_NONE)
        /\ r.error \in {ERR_NONE, ERR_ALLOC, ERR_WRITE, ERR_READ}
        /\ r.error = ERR_ALLOC => r.allocated_bytes = 0
        /\ r.error \in {ERR_WRITE, ERR_READ} => r.allocated_bytes > 0

\* a read phase failed after the worker had emitted a snapshot: the failed
\* result waits in the queue behind it, not ok and with the read error
C24_Witness ==
    /\ pc = "exit"
    /\ Len(ui_q) = 2
    /\ ui_q[1].type = "progress"
    /\ ui_q[2].type = "done"
    /\ ~ui_q[2].result.ok
    /\ ui_q[2].result.error = ERR_READ
    /\ ui_q[2].result.allocated_bytes = MaxBufLen

\* C25: for every reading with total > 0, when available is at least
\* 320 MiB the plan is at most available - 64 MiB; so the plan exceeds the
\* available memory only when available is below 320 MiB, the 256 MiB floor
\* plus the 64 MiB margin.
C25_PlanWithinAvailable ==
    (planned /\ vm_total > 0) =>
        /\ vm_avail >= 320 * MiB => target_bytes <= vm_avail - 64 * MiB
        /\ target_bytes > vm_avail => vm_avail < 320 * MiB

\* available is exactly 320 MiB and total well above it: the plan is the
\* floor, which is available - 64 MiB
C25_Witness ==
    /\ planned
    /\ vm_avail = 320 * MiB
    /\ vm_total >= 512 * MiB
    /\ target_bytes = 256 * MiB
    /\ target_bytes = vm_avail - 64 * MiB

====
